---- MODULE Spec2Model ----
(***************************************************************************)
(* Iterator facades of dune-common (common/iteratorfacades.hh) together    *)
(* with the documented example iterator TestIterator and the               *)
(* interoperability traits of dune/common/typetraits.hh.                   *)
(*                                                                         *)
(* Two named iterators "a" and "b" of statically fixed concrete types      *)
(* range over small containers.  Every step applies one synthesized        *)
(* operator of the facade tier the concrete types are bound to and         *)
(* records in res what the operator did: the primitives it invoked, on     *)
(* which side, and the value it returned.  calc holds a call of the        *)
(* integer functions factorial and binomial of dune/common/math.hh.        *)
(***************************************************************************)
EXTENDS Integers, Sequences, FiniteSets, TLC

VARIABLES tier, it, res, aborted, calc

vars == <<tier, it, res, aborted, calc>>

(***************************************************************************)
(* Bounds of the model.                                                    *)
(***************************************************************************)
\* Width in bits of std::size_t and std::ptrdiff_t (scaled down).
Width == 5
\* Width in bits of int (scaled down), narrower than std::size_t.
IntWidth == 4
\* Offsets passed to advance-based operators range over -MaxOffset..MaxOffset.
MaxOffset == 2
\* How far past the end of the container a position may be moved.
PosMargin == 0
\* Width in bits of the integer type factorial and binomial are called with.
MathWidth == 6
\* Largest argument factorial and binomial are called with.
MaxN == 8

Modulus == 2 ^ Width
MinDiff == -(2 ^ (Width - 1))
MaxDiff == 2 ^ (Width - 1) - 1
IntModulus == 2 ^ IntWidth
IntMin == -(2 ^ (IntWidth - 1))
IntMax == 2 ^ (IntWidth - 1) - 1
Offsets == (-MaxOffset) .. MaxOffset

(***************************************************************************)
(* Containers.  Container 1 is the container of the concrete scenario,     *)
(* container 2 a second container of the same length.                      *)
(***************************************************************************)
ScenarioValues == <<10, 20, 30, 40, 50>>
Size == Len(ScenarioValues)
MaxPos == Size + PosMargin
Containers == {1, 2}
values_(c) == [i \in 0 .. (Size - 1) |-> ScenarioValues[i + 1] + (c - 1)]
Positions == 0 .. MaxPos

(***************************************************************************)
(* Fixed-width integer arithmetic.                                         *)
(***************************************************************************)
\* conversion of a signed value to std::size_t
ToUnsigned(n) == n % Modulus
\* conversion of a std::size_t value to std::ptrdiff_t
ToSigned(u) == IF u % Modulus > MaxDiff THEN (u % Modulus) - Modulus ELSE u % Modulus
\* conversion of a value of the difference type to int
ToInt(n) == IF n % IntModulus > IntMax THEN (n % IntModulus) - IntModulus ELSE n % IntModulus
\* unary minus on the difference type: overflow for the minimum is undefined
\* behaviour, any value of the type may result
Negate(d) == IF d = MinDiff THEN MinDiff .. MaxDiff ELSE {-d}

(***************************************************************************)
(* Concrete iterator types and the conversions between them.               *)
(*   Mut   -> Const   one direction only (mutable to constant iterator)    *)
(*   Mut  <-> Alt     both directions                                      *)
(*   Other            converts to and from nothing but itself              *)
(***************************************************************************)
Types == {"Mut", "Const", "Alt", "Other"}
ConversionPairs == {<<"Mut", "Const">>, <<"Mut", "Alt">>, <<"Alt", "Mut">>}
\* std::is_convertible<From,To>::value
is_convertible(From, To) == From = To \/ <<From, To>> \in ConversionPairs
\* Conversion<From,To>::exists
Conversion(From, To) == is_convertible(From, To)
\* IsInteroperable<T1,T2>::value
\* Fault variant of IsInteroperable: both conversions are required.
IsInteroperable_Both(T1, T2) == is_convertible(T1, T2) /\ is_convertible(T2, T1)
IsInteroperable(T1, T2) == is_convertible(T1, T2) \/ is_convertible(T2, T1)
\* EnableIfInterOperable<T1,T2,Type>: the member typedef type exists
EnableIfInterOperable(T1, T2) == IsInteroperable(T1, T2)

(***************************************************************************)
(* The documented example iterator: container_ and position_.              *)
(***************************************************************************)
Iterators == [type : Types, container_ : Containers, position_ : 0 .. (Modulus - 1)]
NoIter == [type |-> "none", container_ |-> 0, position_ |-> 0]
NoRef == [container |-> 0, index |-> 0, value |-> 0, valid |-> FALSE, fault |-> FALSE]
\* TestIterator(C& cont, int pos)
TestIterator(T, cont, pos) ==
    [type |-> T, container_ |-> cont, position_ |-> ToUnsigned(ToInt(pos))]
\* converting / copy constructor
Convert(T, other) == [type |-> T, container_ |-> other.container_, position_ |-> other.position_]

equals(self, other) ==
    self.position_ = other.position_ /\ self.container_ = other.container_

\* the reference container_->values_[position_]; reading outside the
\* container is undefined behaviour: any value, or no value at all
ElementRef(c, idx) ==
    IF idx \in 0 .. (Size - 1)
    THEN {[container |-> c, index |-> idx, value |-> values_(c)[idx],
           valid |-> TRUE, fault |-> FALSE]}
    ELSE {[container |-> c, index |-> idx, value |-> v, valid |-> FALSE, fault |-> f] :
             <<v, f>> \in {<<0, FALSE>>, <<10, FALSE>>, <<0, TRUE>>}}
\* Fault variant of dereference: the element after the position is read.
dereference_OneBased(self) == ElementRef(self.container_, (self.position_ + 1) % Modulus)
dereference(self) == ElementRef(self.container_, self.position_)
increment(self) == [self EXCEPT !.position_ = (@ + 1) % Modulus]
decrement(self) == [self EXCEPT !.position_ = (@ - 1) % Modulus]
\* elementAt(int i): container_->operator[](position_+i)
elementAt(self, i) ==
    ElementRef(self.container_, (self.position_ + ToUnsigned(ToInt(i))) % Modulus)
\* Fault variant of advance: the offset is taken as an unsigned int.
advance_UnsignedOffset(self, n) ==
    [self EXCEPT !.position_ = (@ + (n % IntModulus)) % Modulus]
\* advance(int n): position_=position_+n, the int converted to size_t
advance(self, n) == [self EXCEPT !.position_ = (@ + ToUnsigned(ToInt(n))) % Modulus]
\* Fault variant of distanceTo: the containers are not compared.
distanceTo_NoAssert(self, other) ==
    [ok |-> TRUE,
     d  |-> ToSigned((other.position_ - self.position_) % Modulus)]

\* assert(other.container_==container_); return other.position_ - position_;
distanceTo(self, other) ==
    [ok |-> other.container_ = self.container_,
     d  |-> ToSigned((other.position_ - self.position_) % Modulus)]

(***************************************************************************)
(* factorial and binomial of dune/common/math.hh on an integer type T of   *)
(* MathWidth bits, signed or unsigned.  A value is a record: v the value,  *)
(* ub whether a signed operation overflowed on the way (undefined          *)
(* behaviour: the result is then any value of the type).                   *)
(***************************************************************************)
IntegerTypes == {"signed", "unsigned"}
MathModulus == 2 ^ MathWidth
TypeMin(T) == IF T = "signed" THEN -(2 ^ (MathWidth - 1)) ELSE 0
TypeMax(T) == IF T = "signed" THEN 2 ^ (MathWidth - 1) - 1 ELSE MathModulus - 1
TypeRange(T) == TypeMin(T) .. TypeMax(T)
\* the T value of an operation whose exact result is e
Wrapped(T, e) ==
    [v  |-> IF T = "unsigned" THEN e % MathModulus
            ELSE IF e \in TypeRange(T) THEN e ELSE 0,
     ub |-> T = "signed" /\ e \notin TypeRange(T)]
\* a *= b
Times(T, a, b) == [v |-> Wrapped(T, a.v * b).v, ub |-> a.ub \/ Wrapped(T, a.v * b).ub]

\* for(T k = 0; k < n; ++k) fac *= k+1;
RECURSIVE factorialLoop(_, _, _, _)
factorialLoop(T, n, k, fac) ==
    IF k < n THEN factorialLoop(T, n, k + 1, Times(T, fac, k + 1)) ELSE fac
factorial(T, n) == factorialLoop(T, n, 0, [v |-> 1, ub |-> FALSE])

\* for(auto i = n-k; i < n; ++i) bin *= i+1;
RECURSIVE binomialLoop(_, _, _, _)
binomialLoop(T, n, i, bin) ==
    IF i < n THEN binomialLoop(T, n, i + 1, Times(T, bin, i + 1)) ELSE bin
\* bin / factorial(k); a zero divisor is undefined behaviour
Quotient(bin, fac) ==
    IF fac.v = 0 THEN [v |-> 0, ub |-> TRUE]
    ELSE [v |-> bin.v \div fac.v, ub |-> bin.ub \/ fac.ub]

\* binomial(n, k): v and ub as above, calls the number of recursive calls
RECURSIVE binomial(_, _, _)
binomial(T, n, k) ==
    IF k < 0 \/ k > n THEN [v |-> 0, ub |-> FALSE, calls |-> 0]
    ELSE IF Wrapped(T, 2 * k).ub THEN [v |-> 0, ub |-> TRUE, calls |-> 0]
    ELSE IF Wrapped(T, 2 * k).v > n
         THEN [binomial(T, n, n - k) EXCEPT !.calls = @ + 1]
         ELSE LET q == Quotient(binomialLoop(T, n, n - k, [v |-> 1, ub |-> FALSE]),
                                factorial(T, k))
              IN  [v |-> q.v, ub |-> q.ub, calls |-> 0]

\* binomial(integral_constant<T,n>, integral_constant<T,k>); the overload for
\* two equal constants is the more specialized one.  Undefined behaviour in
\* the constant evaluation (the program is then ill-formed) is kept as ub.
binomial_constant(T, n, k) ==
    IF n = k THEN [v |-> IF n >= 0 THEN 1 ELSE 0, ub |-> FALSE, calls |-> 0]
    ELSE binomial(T, n, k)

\* the values a call may return
Returned(T, r) == IF r.ub THEN TypeRange(T) ELSE {r.v}

\* arguments of the calls
MathArgs(T) == TypeRange(T) \cap ((-1) .. MaxN)
NoCalc ==
    [pc |-> "idle", fn |-> "-", T |-> "-", n |-> 0, k |-> 0, v |-> 0, ub |-> FALSE,
     calls |-> 0]

(***************************************************************************)
(* What one application of a synthesized operator does:                    *)
(*   self    the iterator the operator was applied to, afterwards          *)
(*   ret     the iterator returned by value (NoIter when none is)          *)
(*   bval, dval, ref, ptr   the boolean, difference, reference or pointer  *)
(*           returned                                                      *)
(*   ok      FALSE when the call did not return (assertion, fault)         *)
(*   calls   the primitives of the concrete type invoked, in order         *)
(*   branch  the side whose primitive a binary operator invoked            *)
(***************************************************************************)
NoPtr == [container |-> 0, index |-> 0]
Call(prim, on, arg, n) == [prim |-> prim, on |-> on, arg |-> arg, n |-> n]
Result(self) ==
    [self |-> self, ret |-> NoIter, bval |-> FALSE, dval |-> 0, ref |-> NoRef,
     ptr |-> NoPtr, ok |-> TRUE, calls |-> <<>>, branch |-> "-"]
\* the address of the element a reference denotes
AddressOf(r) == [container |-> r.container, index |-> r.index]
PtrResult(self, r, call) ==
    [Result(self) EXCEPT !.ptr = AddressOf(r), !.ok = ~r.fault, !.calls = <<call>>]
RefResult(self, r, call) ==
    [Result(self) EXCEPT !.ref = r, !.ok = ~r.fault, !.calls = <<call>>]
StepResult(self, call) == [Result(self) EXCEPT !.calls = <<call>>]
BoolResult(on, arg, prim, ok, b) ==
    [Result(NoIter) EXCEPT !.bval = ok /\ b, !.ok = ok, !.branch = on,
                           !.calls = <<Call(prim, on, arg, 0)>>]
DiffResult(on, arg, ok, d) ==
    [Result(NoIter) EXCEPT !.dval = IF ok THEN d ELSE 0, !.ok = ok, !.branch = on,
                           !.calls = <<Call("distanceTo", on, arg, 0)>>]

(***************************************************************************)
(* ForwardIteratorFacade                                                   *)
(***************************************************************************)
Forward_Star(self) ==
    {RefResult(self, r, Call("dereference", "self", "-", 0)) : r \in dereference(self)}

Forward_Arrow(self) ==
    {PtrResult(self, r, Call("dereference", "self", "-", 0)) : r \in dereference(self)}

Forward_PreInc(self) ==
    {StepResult(increment(self), Call("increment", "self", "-", 0))}

\* Fault variant of Forward_PostInc: the copy is taken after the increment.
Forward_PostInc_CopyAfter(self) ==
    {[r EXCEPT !.ret = Convert(self.type, r.self)] : r \in Forward_PreInc(self)}

Forward_PostInc(self) ==
    LET tmp == Convert(self.type, self)
    IN  {[r EXCEPT !.ret = tmp] : r \in Forward_PreInc(self)}

\* Fault variant of Forward_Eq: the conversion from the left-hand to the
\* right-hand type is tried first, and the right-hand primitive used with it.
Forward_Eq_LeftToRightFirst(lhs, rhs) ==
    IF ~EnableIfInterOperable(lhs.type, rhs.type) THEN {}
    ELSE IF Conversion(lhs.type, rhs.type)
         THEN {BoolResult("rhs", "lhs", "equals", TRUE, equals(rhs, lhs))}
         ELSE {BoolResult("lhs", "rhs", "equals", TRUE, equals(lhs, rhs))}

Forward_Eq(lhs, rhs) ==
    IF ~EnableIfInterOperable(lhs.type, rhs.type) THEN {}
    ELSE IF Conversion(rhs.type, lhs.type)
         THEN {BoolResult("lhs", "rhs", "equals", TRUE, equals(lhs, rhs))}
         ELSE {BoolResult("rhs", "lhs", "equals", TRUE, equals(rhs, lhs))}

Forward_Ne(lhs, rhs) ==
    IF ~EnableIfInterOperable(lhs.type, rhs.type) THEN {}
    ELSE IF Conversion(rhs.type, lhs.type)
         THEN {BoolResult("lhs", "rhs", "equals", TRUE, ~equals(lhs, rhs))}
         ELSE {BoolResult("rhs", "lhs", "equals", TRUE, ~equals(rhs, lhs))}

(***************************************************************************)
(* BidirectionalIteratorFacade                                             *)
(***************************************************************************)
Bidirectional_Star(self) ==
    {RefResult(self, r, Call("dereference", "self", "-", 0)) : r \in dereference(self)}

Bidirectional_Arrow(self) ==
    {PtrResult(self, r, Call("dereference", "self", "-", 0)) : r \in dereference(self)}

Bidirectional_PreInc(self) ==
    {StepResult(increment(self), Call("increment", "self", "-", 0))}

Bidirectional_PostInc(self) ==
    LET tmp == Convert(self.type, self)
    IN  {[r EXCEPT !.ret = tmp] : r \in Bidirectional_PreInc(self)}

\* Fault variant of Bidirectional_PreDec: increment() is called.
Bidirectional_PreDec_Increments(self) ==
    {StepResult(increment(self), Call("decrement", "self", "-", 0))}

Bidirectional_PreDec(self) ==
    {StepResult(decrement(self), Call("decrement", "self", "-", 0))}

Bidirectional_PostDec(self) ==
    LET tmp == Convert(self.type, self)
    IN  {[r EXCEPT !.ret = tmp] : r \in Bidirectional_PreDec(self)}

\* Fault variant of Bidirectional_Eq: the swapped branch carries the negation
\* of operator!=.
Bidirectional_Eq_SwappedNegated(lhs, rhs) ==
    IF ~EnableIfInterOperable(lhs.type, rhs.type) THEN {}
    ELSE IF Conversion(rhs.type, lhs.type)
         THEN {BoolResult("lhs", "rhs", "equals", TRUE, equals(lhs, rhs))}
         ELSE {BoolResult("rhs", "lhs", "equals", TRUE, ~equals(rhs, lhs))}

Bidirectional_Eq(lhs, rhs) ==
    IF ~EnableIfInterOperable(lhs.type, rhs.type) THEN {}
    ELSE IF Conversion(rhs.type, lhs.type)
         THEN {BoolResult("lhs", "rhs", "equals", TRUE, equals(lhs, rhs))}
         ELSE {BoolResult("rhs", "lhs", "equals", TRUE, equals(rhs, lhs))}

Bidirectional_Ne(lhs, rhs) ==
    IF ~EnableIfInterOperable(lhs.type, rhs.type) THEN {}
    ELSE IF Conversion(rhs.type, lhs.type)
         THEN {BoolResult("lhs", "rhs", "equals", TRUE, ~equals(lhs, rhs))}
         ELSE {BoolResult("rhs", "lhs", "equals", TRUE, ~equals(rhs, lhs))}

(***************************************************************************)
(* RandomAccessIteratorFacade                                              *)
(***************************************************************************)
RandomAccess_Star(self) ==
    {RefResult(self, r, Call("dereference", "self", "-", 0)) : r \in dereference(self)}

RandomAccess_Arrow(self) ==
    {PtrResult(self, r, Call("dereference", "self", "-", 0)) : r \in dereference(self)}

\* Fault variant of RandomAccess_Subscript: the iterator itself is advanced
\* and then dereferenced.
RandomAccess_Subscript_AdvanceThenDereference(self, n) ==
    LET moved == advance(self, n)
    IN  {[RefResult(moved, r, Call("advance", "self", "-", n)) EXCEPT
             !.calls = <<Call("advance", "self", "-", n),
                         Call("dereference", "self", "-", 0)>>] :
            r \in dereference(moved)}

RandomAccess_Subscript(self, n) ==
    {RefResult(self, r, Call("elementAt", "self", "-", n)) : r \in elementAt(self, n)}

RandomAccess_PreInc(self) ==
    {StepResult(increment(self), Call("increment", "self", "-", 0))}

RandomAccess_PostInc(self) ==
    LET tmp == Convert(self.type, self)
    IN  {[r EXCEPT !.ret = tmp] : r \in RandomAccess_PreInc(self)}

RandomAccess_PlusAssign(self, n) ==
    {StepResult(advance(self, n), Call("advance", "self", "-", n))}

\* Fault variant of RandomAccess_Plus: the copy is advanced by -n.
RandomAccess_Plus_NegatedOffset(self, n) ==
    LET tmp == Convert(self.type, self)
    IN  {[Result(self) EXCEPT !.ret = advance(tmp, v),
                              !.calls = <<Call("advance", "tmp", "-", v)>>] :
            v \in Negate(n)}

RandomAccess_Plus(self, n) ==
    LET tmp == Convert(self.type, self)
    IN  {[Result(self) EXCEPT !.ret = advance(tmp, n),
                              !.calls = <<Call("advance", "tmp", "-", n)>>]}

RandomAccess_PreDec(self) ==
    {StepResult(decrement(self), Call("decrement", "self", "-", 0))}

\* Fault variant of RandomAccess_PostDec: the iterator returned is the one
\* already moved.
RandomAccess_PostDec_ReturnsMoved(self) ==
    {[r EXCEPT !.ret = Convert(self.type, r.self)] : r \in RandomAccess_PreDec(self)}

RandomAccess_PostDec(self) ==
    LET tmp == Convert(self.type, self)
    IN  {[r EXCEPT !.ret = tmp] : r \in RandomAccess_PreDec(self)}

\* Fault variant of RandomAccess_MinusAssign: the offset is not negated.
RandomAccess_MinusAssign_NotNegated(self, n) ==
    {StepResult(advance(self, n), Call("advance", "self", "-", n))}

RandomAccess_MinusAssign(self, n) ==
    {StepResult(advance(self, v), Call("advance", "self", "-", v)) : v \in Negate(n)}

\* Fault variant of RandomAccess_Minus: tmp is the iterator itself, not a copy.
RandomAccess_Minus_AdvancesSelf(self, n) ==
    {[Result(advance(self, v)) EXCEPT !.ret = advance(self, v),
                                      !.calls = <<Call("advance", "tmp", "-", v)>>] :
        v \in Negate(n)}

RandomAccess_Minus(self, n) ==
    LET tmp == Convert(self.type, self)
    IN  {[Result(self) EXCEPT !.ret = advance(tmp, v),
                              !.calls = <<Call("advance", "tmp", "-", v)>>] :
            v \in Negate(n)}

RandomAccess_Eq(lhs, rhs) ==
    IF ~EnableIfInterOperable(lhs.type, rhs.type) THEN {}
    ELSE IF Conversion(rhs.type, lhs.type)
         THEN {BoolResult("lhs", "rhs", "equals", TRUE, equals(lhs, rhs))}
         ELSE {BoolResult("rhs", "lhs", "equals", TRUE, equals(rhs, lhs))}

RandomAccess_Ne(lhs, rhs) ==
    IF ~EnableIfInterOperable(lhs.type, rhs.type) THEN {}
    ELSE IF Conversion(rhs.type, lhs.type)
         THEN {BoolResult("lhs", "rhs", "equals", TRUE, ~equals(lhs, rhs))}
         ELSE {BoolResult("rhs", "lhs", "equals", TRUE, ~equals(rhs, lhs))}

\* Fault variant of RandomAccess_Lt: the swapped branch keeps the sign test
\* of the direct branch.
RandomAccess_Lt_SameSign(lhs, rhs) ==
    IF ~EnableIfInterOperable(lhs.type, rhs.type) THEN {}
    ELSE IF Conversion(rhs.type, lhs.type)
         THEN LET r == distanceTo(lhs, rhs)
              IN  {BoolResult("lhs", "rhs", "distanceTo", r.ok, r.d > 0)}
         ELSE LET r == distanceTo(rhs, lhs)
              IN  {BoolResult("rhs", "lhs", "distanceTo", r.ok, r.d > 0)}

\* Fault variant of RandomAccess_Lt: the direct branch accepts distance zero.
RandomAccess_Lt_NonStrict(lhs, rhs) ==
    IF ~EnableIfInterOperable(lhs.type, rhs.type) THEN {}
    ELSE IF Conversion(rhs.type, lhs.type)
         THEN LET r == distanceTo(lhs, rhs)
              IN  {BoolResult("lhs", "rhs", "distanceTo", r.ok, r.d >= 0)}
         ELSE LET r == distanceTo(rhs, lhs)
              IN  {BoolResult("rhs", "lhs", "distanceTo", r.ok, r.d < 0)}

RandomAccess_Lt(lhs, rhs) ==
    IF ~EnableIfInterOperable(lhs.type, rhs.type) THEN {}
    ELSE IF Conversion(rhs.type, lhs.type)
         THEN LET r == distanceTo(lhs, rhs)
              IN  {BoolResult("lhs", "rhs", "distanceTo", r.ok, r.d > 0)}
         ELSE LET r == distanceTo(rhs, lhs)
              IN  {BoolResult("rhs", "lhs", "distanceTo", r.ok, r.d < 0)}

\* Fault variant of RandomAccess_Le: the swapped branch tests strictly.
RandomAccess_Le_StrictSwapped(lhs, rhs) ==
    IF ~EnableIfInterOperable(lhs.type, rhs.type) THEN {}
    ELSE IF Conversion(rhs.type, lhs.type)
         THEN LET r == distanceTo(lhs, rhs)
              IN  {BoolResult("lhs", "rhs", "distanceTo", r.ok, r.d >= 0)}
         ELSE LET r == distanceTo(rhs, lhs)
              IN  {BoolResult("rhs", "lhs", "distanceTo", r.ok, r.d < 0)}

RandomAccess_Le(lhs, rhs) ==
    IF ~EnableIfInterOperable(lhs.type, rhs.type) THEN {}
    ELSE IF Conversion(rhs.type, lhs.type)
         THEN LET r == distanceTo(lhs, rhs)
              IN  {BoolResult("lhs", "rhs", "distanceTo", r.ok, r.d >= 0)}
         ELSE LET r == distanceTo(rhs, lhs)
              IN  {BoolResult("rhs", "lhs", "distanceTo", r.ok, r.d <= 0)}

RandomAccess_Gt(lhs, rhs) ==
    IF ~EnableIfInterOperable(lhs.type, rhs.type) THEN {}
    ELSE IF Conversion(rhs.type, lhs.type)
         THEN LET r == distanceTo(lhs, rhs)
              IN  {BoolResult("lhs", "rhs", "distanceTo", r.ok, r.d < 0)}
         ELSE LET r == distanceTo(rhs, lhs)
              IN  {BoolResult("rhs", "lhs", "distanceTo", r.ok, r.d > 0)}

\* Fault variant of RandomAccess_Ge: the conversion is tested in the other
\* direction.
RandomAccess_Ge_ReversedTest(lhs, rhs) ==
    IF ~EnableIfInterOperable(lhs.type, rhs.type) THEN {}
    ELSE IF Conversion(lhs.type, rhs.type)
         THEN LET r == distanceTo(lhs, rhs)
              IN  {BoolResult("lhs", "rhs", "distanceTo", r.ok, r.d <= 0)}
         ELSE LET r == distanceTo(rhs, lhs)
              IN  {BoolResult("rhs", "lhs", "distanceTo", r.ok, r.d >= 0)}

RandomAccess_Ge(lhs, rhs) ==
    IF ~EnableIfInterOperable(lhs.type, rhs.type) THEN {}
    ELSE IF Conversion(rhs.type, lhs.type)
         THEN LET r == distanceTo(lhs, rhs)
              IN  {BoolResult("lhs", "rhs", "distanceTo", r.ok, r.d <= 0)}
         ELSE LET r == distanceTo(rhs, lhs)
              IN  {BoolResult("rhs", "lhs", "distanceTo", r.ok, r.d >= 0)}

\* Fault variant of RandomAccess_Difference: the swapped branch negates too.
RandomAccess_Difference_BothNegated(lhs, rhs) ==
    IF ~EnableIfInterOperable(lhs.type, rhs.type) THEN {}
    ELSE IF Conversion(rhs.type, lhs.type)
         THEN LET r == distanceTo(lhs, rhs)
              IN  {DiffResult("lhs", "rhs", r.ok, v) : v \in Negate(r.d)}
         ELSE LET r == distanceTo(rhs, lhs)
              IN  {DiffResult("rhs", "lhs", r.ok, v) : v \in Negate(r.d)}

\* Fault variant of RandomAccess_Difference: the direct branch is not negated.
RandomAccess_Difference_NoneNegated(lhs, rhs) ==
    IF ~EnableIfInterOperable(lhs.type, rhs.type) THEN {}
    ELSE IF Conversion(rhs.type, lhs.type)
         THEN LET r == distanceTo(lhs, rhs)
              IN  {DiffResult("lhs", "rhs", r.ok, r.d)}
         ELSE LET r == distanceTo(rhs, lhs)
              IN  {DiffResult("rhs", "lhs", r.ok, r.d)}

RandomAccess_Difference(lhs, rhs) ==
    IF ~EnableIfInterOperable(lhs.type, rhs.type) THEN {}
    ELSE IF Conversion(rhs.type, lhs.type)
         THEN LET r == distanceTo(lhs, rhs)
              IN  {DiffResult("lhs", "rhs", r.ok, v) : v \in Negate(r.d)}
         ELSE LET r == distanceTo(rhs, lhs)
              IN  {DiffResult("rhs", "lhs", r.ok, r.d)}

(***************************************************************************)
(* The tier a concrete iterator type derives from selects the operators    *)
(* it inherits; an operator a tier does not declare has no outcome.        *)
(***************************************************************************)
Tiers == {"Forward", "Bidirectional", "RandomAccess"}

Star(t, self) ==
    CASE t = "Forward" -> Forward_Star(self)
      [] t = "Bidirectional" -> Bidirectional_Star(self)
      [] t = "RandomAccess" -> RandomAccess_Star(self)

Arrow(t, self) ==
    CASE t = "Forward" -> Forward_Arrow(self)
      [] t = "Bidirectional" -> Bidirectional_Arrow(self)
      [] t = "RandomAccess" -> RandomAccess_Arrow(self)

PreInc(t, self) ==
    CASE t = "Forward" -> Forward_PreInc(self)
      [] t = "Bidirectional" -> Bidirectional_PreInc(self)
      [] t = "RandomAccess" -> RandomAccess_PreInc(self)

PostInc(t, self) ==
    CASE t = "Forward" -> Forward_PostInc(self)
      [] t = "Bidirectional" -> Bidirectional_PostInc(self)
      [] t = "RandomAccess" -> RandomAccess_PostInc(self)

PreDec(t, self) ==
    CASE t = "Forward" -> {}
      [] t = "Bidirectional" -> Bidirectional_PreDec(self)
      [] t = "RandomAccess" -> RandomAccess_PreDec(self)

PostDec(t, self) ==
    CASE t = "Forward" -> {}
      [] t = "Bidirectional" -> Bidirectional_PostDec(self)
      [] t = "RandomAccess" -> RandomAccess_PostDec(self)

Eq(t, lhs, rhs) ==
    CASE t = "Forward" -> Forward_Eq(lhs, rhs)
      [] t = "Bidirectional" -> Bidirectional_Eq(lhs, rhs)
      [] t = "RandomAccess" -> RandomAccess_Eq(lhs, rhs)

Ne(t, lhs, rhs) ==
    CASE t = "Forward" -> Forward_Ne(lhs, rhs)
      [] t = "Bidirectional" -> Bidirectional_Ne(lhs, rhs)
      [] t = "RandomAccess" -> RandomAccess_Ne(lhs, rhs)

RandomAccessOnly(t, outs) == IF t = "RandomAccess" THEN outs ELSE {}

(***************************************************************************)
(* State: the two named iterators and the record of the last operator      *)
(* application.                                                            *)
(***************************************************************************)
Names == {"a", "b"}
\* where a returned copy goes: into a named iterator, or nowhere
Targets == Names \cup {"-"}
TypePairs == {<<"Mut", "Mut">>, <<"Mut", "Const">>, <<"Mut", "Alt">>, <<"Mut", "Other">>}
\* the type pairs also tried with b over the second container
TwoContainerPairs == {<<"Mut", "Mut">>, <<"Mut", "Const">>}

\* The consecutive operator applications whose first application is
\* remembered (in res.after) while the second is the last one: a step and
\* the opposite step of the same iterator by the same offset, a copy moved
\* by an offset and its difference to the original, a difference and the
\* difference with the operands exchanged, a copy and a comparison with
\* its original.
Chained(prev, op, x, y, n) ==
    \/ /\ <<prev.op, op>> \in {<<"++it", "--it">>, <<"--it", "++it">>}
       /\ prev.x = x
    \/ /\ <<prev.op, op>> \in {<<"+=", "-=">>, <<"-=", "+=">>}
       /\ prev.x = x
       /\ prev.n = n
    \/ /\ <<prev.op, op>> = <<"+", "diff">>
       /\ prev.x = y
       /\ prev.y = x
       /\ x # y
    \/ /\ <<prev.op, op>> = <<"diff", "diff">>
       /\ prev.x = y
       /\ prev.y = x
    \/ /\ prev.op = "construct"
       /\ op \in {"==", "!="}
       /\ {prev.x, prev.y} = {x, y}

Flat(r) == [op |-> r.op, x |-> r.x, y |-> r.y, n |-> r.n, pre |-> r.pre, out |-> r.out]
NoRecord ==
    [op |-> "none", x |-> "a", y |-> "-", n |-> 0, pre |-> NoIter, out |-> Result(NoIter)]

Record(op, x, y, n, out) ==
    [op |-> op, x |-> x, y |-> y, n |-> n, pre |-> it[x], out |-> out,
     after |-> IF Chained(res, op, x, y, n) THEN Flat(res) ELSE NoRecord]

Init ==
    /\ tier \in Tiers
    /\ \E tp \in TypePairs, c \in Containers, p \in {0, Size} :
          /\ c = 2 => tp \in TwoContainerPairs
          /\ it = [nm \in Names |-> IF nm = "a" THEN TestIterator(tp[1], 1, 0)
                                              ELSE TestIterator(tp[2], c, p)]
    /\ res = [op |-> "init", x |-> "a", y |-> "-", n |-> 0, pre |-> NoIter,
              out |-> Result(NoIter), after |-> NoRecord]
    /\ aborted = FALSE
    /\ calc = NoCalc

\* One application of an operator to it[x] (and it[y]) with outcome set outs.
\* A returned copy is stored in it[y] through the converting constructor.
\* Positions stay within 0 .. MaxPos.
Apply(op, x, y, n, outs) ==
    \E out \in outs :
       /\ out.self # NoIter => out.self.position_ \in Positions
       /\ out.ret # NoIter => out.ret.position_ \in Positions
       /\ (y \in Names /\ out.ret # NoIter) => Conversion(out.ret.type, it[y].type)
       /\ it' = [nm \in Names |->
                   IF nm = y /\ out.ret # NoIter THEN Convert(it[y].type, out.ret)
                   ELSE IF nm = x /\ out.self # NoIter THEN out.self
                   ELSE it[nm]]
       /\ res' = Record(op, x, y, n, out)
       /\ aborted' = ~out.ok
       /\ UNCHANGED <<tier, calc>>

Dereference(x) ==
    /\ ~aborted
    /\ Apply("*", x, "-", 0, Star(tier, it[x]))
MemberAccess(x) ==
    /\ ~aborted
    /\ Apply("->", x, "-", 0, Arrow(tier, it[x]))
PreIncrement(x) ==
    /\ ~aborted
    /\ Apply("++it", x, "-", 0, PreInc(tier, it[x]))
PostIncrement(x, y) ==
    /\ ~aborted
    /\ x # y
    /\ Apply("it++", x, y, 0, PostInc(tier, it[x]))
PreDecrement(x) ==
    /\ ~aborted
    /\ Apply("--it", x, "-", 0, PreDec(tier, it[x]))
PostDecrement(x, y) ==
    /\ ~aborted
    /\ x # y
    /\ Apply("it--", x, y, 0, PostDec(tier, it[x]))
Subscript(x, n) ==
    /\ ~aborted
    /\ Apply("[]", x, "-", n, RandomAccessOnly(tier, RandomAccess_Subscript(it[x], n)))
PlusAssign(x, n) ==
    /\ ~aborted
    /\ Apply("+=", x, "-", n, RandomAccessOnly(tier, RandomAccess_PlusAssign(it[x], n)))
Plus(x, n, y) ==
    /\ ~aborted
    /\ x # y
    /\ Apply("+", x, y, n, RandomAccessOnly(tier, RandomAccess_Plus(it[x], n)))
MinusAssign(x, n) ==
    /\ ~aborted
    /\ Apply("-=", x, "-", n, RandomAccessOnly(tier, RandomAccess_MinusAssign(it[x], n)))
Minus(x, n, y) ==
    /\ ~aborted
    /\ x # y
    /\ Apply("-", x, y, n, RandomAccessOnly(tier, RandomAccess_Minus(it[x], n)))
Equal(x, y) ==
    /\ ~aborted
    /\ Apply("==", x, y, 0, Eq(tier, it[x], it[y]))
NotEqual(x, y) ==
    /\ ~aborted
    /\ Apply("!=", x, y, 0, Ne(tier, it[x], it[y]))
Less(x, y) ==
    /\ ~aborted
    /\ Apply("<", x, y, 0, RandomAccessOnly(tier, RandomAccess_Lt(it[x], it[y])))
LessEqual(x, y) ==
    /\ ~aborted
    /\ Apply("<=", x, y, 0, RandomAccessOnly(tier, RandomAccess_Le(it[x], it[y])))
Greater(x, y) ==
    /\ ~aborted
    /\ Apply(">", x, y, 0, RandomAccessOnly(tier, RandomAccess_Gt(it[x], it[y])))
GreaterEqual(x, y) ==
    /\ ~aborted
    /\ Apply(">=", x, y, 0, RandomAccessOnly(tier, RandomAccess_Ge(it[x], it[y])))
Difference(x, y) ==
    /\ ~aborted
    /\ Apply("diff", x, y, 0, RandomAccessOnly(tier, RandomAccess_Difference(it[x], it[y])))
\* it[y] is constructed anew from it[x] by the converting constructor
Construct(x, y) ==
    /\ ~aborted
    /\ x # y
    /\ Conversion(it[x].type, it[y].type)
    /\ Apply("construct", x, y, 0,
             {[Result(it[x]) EXCEPT !.ret = Convert(it[y].type, it[x])]})

Next ==
    \/ \E x \in Names : Dereference(x)
    \/ \E x \in Names : MemberAccess(x)
    \/ \E x \in Names : PreIncrement(x)
    \/ \E x \in Names, y \in Targets : PostIncrement(x, y)
    \/ \E x \in Names : PreDecrement(x)
    \/ \E x \in Names, y \in Targets : PostDecrement(x, y)
    \/ \E x \in Names, n \in Offsets : Subscript(x, n)
    \/ \E x \in Names, n \in Offsets : PlusAssign(x, n)
    \/ \E x \in Names, n \in Offsets, y \in Targets : Plus(x, n, y)
    \/ \E x \in Names, n \in Offsets : MinusAssign(x, n)
    \/ \E x \in Names, n \in Offsets, y \in Targets : Minus(x, n, y)
    \/ \E x \in Names, y \in Names : Equal(x, y)
    \/ \E x \in Names, y \in Names : NotEqual(x, y)
    \/ \E x \in Names, y \in Names : Less(x, y)
    \/ \E x \in Names, y \in Names : LessEqual(x, y)
    \/ \E x \in Names, y \in Names : Greater(x, y)
    \/ \E x \in Names, y \in Names : GreaterEqual(x, y)
    \/ \E x \in Names, y \in Names : Difference(x, y)
    \/ \E x \in Names, y \in Names : Construct(x, y)

Spec == Init /\ [][Next]_vars

(***************************************************************************)
(* The position arithmetic of the example iterator on its own: the         *)
(* primitives advance and distanceTo are called directly on two iterators  *)
(* of one container, starting from any two of its positions.               *)
(***************************************************************************)
PositionInit ==
    /\ tier = "RandomAccess"
    /\ \E p \in Positions, q \in Positions :
          it = [nm \in Names |-> TestIterator("Mut", 1, IF nm = "a" THEN p ELSE q)]
    /\ res = [op |-> "init", x |-> "a", y |-> "-", n |-> 0, pre |-> NoIter,
              out |-> Result(NoIter), after |-> NoRecord]
    /\ aborted = FALSE
    /\ calc = NoCalc

\* d = it[x].distanceTo(it[y])
CallDistanceTo(x, y) ==
    LET r == distanceTo(it[x], it[y])
    IN  /\ ~aborted
        /\ res' = Record("distanceTo", x, y, 0,
                         [Result(it[x]) EXCEPT !.dval = IF r.ok THEN r.d ELSE 0,
                                               !.ok = r.ok,
                                               !.calls = <<Call("distanceTo", "self", "arg", 0)>>])
        /\ aborted' = ~r.ok
        /\ UNCHANGED <<tier, it, calc>>

\* it[x].advance(n) with an int n
CallAdvance(x, n) ==
    /\ ~aborted
    /\ it' = [it EXCEPT ![x] = advance(it[x], n)]
    /\ res' = Record("advance", x, "-", n,
                     StepResult(advance(it[x], n), Call("advance", "self", "-", n)))
    /\ UNCHANGED <<tier, aborted, calc>>

\* it[x].advance(it[x].distanceTo(it[y]))
CallAdvanceByDistance(x, y) ==
    LET r == distanceTo(it[x], it[y])
    IN  /\ ~aborted
        /\ r.ok
        /\ it' = [it EXCEPT ![x] = advance(it[x], r.d)]
        /\ res' = Record("advance(distanceTo)", x, y, r.d,
                         [StepResult(advance(it[x], r.d), Call("distanceTo", "self", "arg", 0))
                             EXCEPT !.dval = r.d,
                                    !.calls = <<Call("distanceTo", "self", "arg", 0),
                                                Call("advance", "self", "-", r.d)>>])
        /\ UNCHANGED <<tier, aborted, calc>>

PositionNext ==
    \/ \E x \in Names, y \in Names : CallDistanceTo(x, y)
    \/ \E x \in Names, n \in Offsets : CallAdvance(x, n)
    \/ \E x \in Names, y \in Names : CallAdvanceByDistance(x, y)

PositionSpec == PositionInit /\ [][PositionNext]_vars

(***************************************************************************)
(* Calls of the integer functions of math.hh, for every type and every     *)
(* pair of arguments.                                                      *)
(***************************************************************************)
MathInit ==
    /\ tier = "Forward"
    /\ it = [nm \in Names |-> NoIter]
    /\ res = [op |-> "init", x |-> "a", y |-> "-", n |-> 0, pre |-> NoIter,
              out |-> Result(NoIter), after |-> NoRecord]
    /\ aborted = FALSE
    /\ \E T \in IntegerTypes : \E n \in MathArgs(T), k \in MathArgs(T) :
          calc = [NoCalc EXCEPT !.pc = "args", !.T = T, !.n = n, !.k = k]

\* the call returns one of the values it may return
Return(fn, r) ==
    /\ \E v \in Returned(calc.T, r) :
          calc' = [calc EXCEPT !.pc = "done", !.fn = fn, !.v = v, !.ub = r.ub,
                               !.calls = r.calls]
    /\ UNCHANGED <<tier, it, res, aborted>>

CallFactorial ==
    /\ calc.pc = "args"
    /\ Return("factorial", [v |-> factorial(calc.T, calc.n).v,
                            ub |-> factorial(calc.T, calc.n).ub, calls |-> 0])
CallBinomial ==
    /\ calc.pc = "args"
    /\ Return("binomial", binomial(calc.T, calc.n, calc.k))
CallBinomialConstant ==
    /\ calc.pc = "args"
    /\ Return("binomial_constant", binomial_constant(calc.T, calc.n, calc.k))

MathNext ==
    \/ CallFactorial
    \/ CallBinomial
    \/ CallBinomialConstant

MathSpec == MathInit /\ [][MathNext]_vars

(***************************************************************************)
(* Properties.                                                             *)
(***************************************************************************)
BinaryOps == {"==", "!=", "<", "<=", ">", ">=", "diff"}
PrimitiveOf(op) == IF op \in {"==", "!="} THEN "equals" ELSE "distanceTo"
lhsOf(r) == it[r.x]
rhsOf(r) == it[r.y]
SameContainer(r) == it[r.x].container_ = it[r.y].container_

\* C1: over one sequence, lhs < rhs returns true iff lhs.distanceTo(rhs) > 0,
\* whichever side's distanceTo the operator invoked.
C1_LessIffDistancePositive ==
    (res.op = "<" /\ SameContainer(res)) =>
        /\ res.out.ok
        /\ res.out.bval <=> (distanceTo(lhsOf(res), rhsOf(res)).d > 0)
        /\ res.out.bval <=> (lhsOf(res).position_ < rhsOf(res).position_)

C1_Witness ==
    /\ res.op = "<"
    /\ SameContainer(res)
    /\ res.out.branch = "rhs"
    /\ res.out.bval

\* C2: over one sequence, lhs - rhs is the negation of lhs.distanceTo(rhs),
\* the number of forward steps from rhs to lhs, in both dispatch branches.
C2_DifferenceIsNegatedDistance ==
    (res.op = "diff" /\ SameContainer(res)) =>
        /\ res.out.ok
        /\ res.out.dval = -(distanceTo(lhsOf(res), rhsOf(res)).d)
        /\ res.out.dval = lhsOf(res).position_ - rhsOf(res).position_

C2_Witness ==
    /\ res.op = "diff"
    /\ SameContainer(res)
    /\ res.out.branch = "rhs"
    /\ res.out.dval = 2

\* C3: every binary operator of every tier invokes exactly the primitive of
\* the left-hand side with the right-hand side as argument when the
\* right-hand type converts to the left-hand type, and otherwise the
\* primitive of the right-hand side with the left-hand side as argument.
C3_DispatchRule ==
    res.op \in BinaryOps =>
        IF Conversion(rhsOf(res).type, lhsOf(res).type)
        THEN /\ res.out.branch = "lhs"
             /\ res.out.calls = <<Call(PrimitiveOf(res.op), "lhs", "rhs", 0)>>
        ELSE /\ res.out.branch = "rhs"
             /\ res.out.calls = <<Call(PrimitiveOf(res.op), "rhs", "lhs", 0)>>

C3_Witness ==
    /\ tier = "Forward"
    /\ res.op = "!="
    /\ res.out.calls = <<Call("equals", "rhs", "lhs", 0)>>

BothWays(l, r) == Conversion(l.type, r.type) /\ Conversion(r.type, l.type)
OneWay(l, r) == Conversion(l.type, r.type) /\ ~Conversion(r.type, l.type)
SamePosition(l, r) == l.position_ = r.position_ /\ l.container_ = r.container_
\* the outcomes of binary operator op of the tier for operands l, r
Outcomes(op, l, r) ==
    CASE op = "==" -> Eq(tier, l, r)
      [] op = "!=" -> Ne(tier, l, r)
      [] op = "<" -> RandomAccessOnly(tier, RandomAccess_Lt(l, r))
      [] op = "<=" -> RandomAccessOnly(tier, RandomAccess_Le(l, r))
      [] op = ">" -> RandomAccessOnly(tier, RandomAccess_Gt(l, r))
      [] op = ">=" -> RandomAccessOnly(tier, RandomAccess_Ge(l, r))
      [] op = "diff" -> RandomAccessOnly(tier, RandomAccess_Difference(l, r))
OpsOfTier == IF tier = "RandomAccess" THEN BinaryOps ELSE {"==", "!="}

\* C4 as stated: when both conversions exist the conversion from the
\* left-hand to the right-hand type is the one used, that is, the left-hand
\* operand is the one passed (converted) to the primitive of the other side.
C4_LeftToRightConversionPreferred ==
    (res.op \in BinaryOps /\ BothWays(lhsOf(res), rhsOf(res))) =>
        res.out.calls = <<Call(PrimitiveOf(res.op), "rhs", "lhs", 0)>>

\* C4 amended: when both conversions exist (same type included) every binary
\* operator is available and on every evaluation uses the conversion from
\* the right-hand to the left-hand type: it invokes the primitive of the
\* left-hand side with the right-hand side as argument.
C4_RightToLeftConversionPreferred ==
    /\ \A x \in Names, y \in Names, op \in OpsOfTier :
          BothWays(it[x], it[y]) =>
              /\ Outcomes(op, it[x], it[y]) # {}
              /\ \A o \in Outcomes(op, it[x], it[y]) :
                    o.calls = <<Call(PrimitiveOf(op), "lhs", "rhs", 0)>>
    /\ (res.op \in BinaryOps /\ BothWays(lhsOf(res), rhsOf(res))) =>
          res.out.calls = <<Call(PrimitiveOf(res.op), "lhs", "rhs", 0)>>

C4_Witness ==
    /\ res.op \in BinaryOps
    /\ lhsOf(res).type # rhsOf(res).type
    /\ BothWays(lhsOf(res), rhsOf(res))
    /\ res.out.branch = "lhs"

\* C5: for a mutable and a constant iterator (mutable converts to constant
\* only) m == c and c == m agree, as do m != c and c != m; == is true
\* exactly at the same position of the same container, in particular right
\* after c was constructed from m.
C5_MixedComparisonSymmetric ==
    (res.op \in {"==", "!="}
        /\ (OneWay(lhsOf(res), rhsOf(res)) \/ OneWay(rhsOf(res), lhsOf(res)))) =>
        /\ Outcomes(res.op, rhsOf(res), lhsOf(res)) # {}
        /\ \A o \in Outcomes(res.op, rhsOf(res), lhsOf(res)) :
              o.bval = res.out.bval /\ o.branch # res.out.branch
        /\ res.out.bval <=> (SamePosition(lhsOf(res), rhsOf(res)) <=> (res.op = "=="))
        /\ res.after.op = "construct" => (res.out.bval <=> (res.op = "=="))

C5_Witness ==
    /\ res.op = "=="
    /\ res.after.op = "construct"
    /\ OneWay(lhsOf(res), rhsOf(res))
    /\ lhsOf(res).position_ = 3
    /\ res.out.bval

\* C6: a binary operator exists for a pair of concrete types iff one of them
\* converts to the other (a symmetric condition); for a pair without any
\* conversion there is no operator, so no primitive is invoked and no
\* failure is produced at run time.
C6_OperatorsExistIffInteroperable ==
    /\ \A T1 \in Types, T2 \in Types :
          /\ IsInteroperable(T1, T2) <=> (is_convertible(T1, T2) \/ is_convertible(T2, T1))
          /\ IsInteroperable(T1, T2) <=> IsInteroperable(T2, T1)
    /\ \A x \in Names, y \in Names, op \in OpsOfTier :
          Outcomes(op, it[x], it[y]) # {}
              <=> (is_convertible(it[x].type, it[y].type)
                      \/ is_convertible(it[y].type, it[x].type))
    /\ res.op \in BinaryOps =>
          /\ is_convertible(lhsOf(res).type, rhsOf(res).type)
                \/ is_convertible(rhsOf(res).type, lhsOf(res).type)
          /\ Len(res.out.calls) = 1

C6_Witness ==
    /\ ~is_convertible(it["a"].type, it["b"].type)
    /\ ~is_convertible(it["b"].type, it["a"].type)
    /\ res.op \in BinaryOps
    /\ res.x = "b"

\* C7: *it is it.dereference(); it++ returns a copy at the position it had
\* before the call and leaves it exactly one increment further; it-- is
\* symmetric with decrement.
C7_DereferenceAndPostfixSteps ==
    /\ res.op = "*" =>
          /\ res.out.ref \in dereference(lhsOf(res))
          /\ res.out.calls = <<Call("dereference", "self", "-", 0)>>
          /\ lhsOf(res).position_ < Size =>
                res.out.ref.value = values_(lhsOf(res).container_)[lhsOf(res).position_]
    /\ res.op = "it++" =>
          /\ res.out.ret = res.pre
          /\ dereference(res.out.ret) = dereference(res.pre)
          /\ lhsOf(res) = increment(res.pre)
          /\ lhsOf(res).position_ = res.pre.position_ + 1
          /\ res.y \in Names => SamePosition(rhsOf(res), res.pre)
    /\ res.op = "it--" =>
          /\ res.out.ret = res.pre
          /\ lhsOf(res) = decrement(res.pre)
          /\ lhsOf(res).position_ = res.pre.position_ - 1
          /\ res.y \in Names => SamePosition(rhsOf(res), res.pre)

C7_Witness ==
    /\ tier = "Forward"
    /\ res.op = "it++"
    /\ res.y = "b"
    /\ res.pre.position_ = 2
    /\ it["a"].position_ = 3
    /\ it["b"].position_ = 2

\* C8: ++it followed by --it, and --it followed by ++it, leave it equal (by
\* equals) to its position before the two steps.
C8_StepRoundTrip ==
    /\ (res.op = "--it" /\ res.after.op = "++it") =>
          /\ equals(lhsOf(res), res.after.pre)
          /\ equals(res.after.pre, lhsOf(res))
    /\ (res.op = "++it" /\ res.after.op = "--it") =>
          /\ equals(lhsOf(res), res.after.pre)
          /\ equals(res.after.pre, lhsOf(res))

C8_Witness ==
    /\ tier = "Bidirectional"
    /\ res.op = "--it"
    /\ res.after.op = "++it"
    /\ res.after.pre.position_ = 2
    /\ res.pre.position_ = 3

\* C9: a - b == -(b - a), also for iterators of different interoperable
\* types, where the two differences take different dispatch branches.
C9_DifferenceAntisymmetric ==
    (res.op = "diff" /\ res.after.op = "diff" /\ res.out.ok /\ res.after.out.ok) =>
        res.out.dval = -(res.after.out.dval)

C9_Witness ==
    /\ res.op = "diff"
    /\ res.after.op = "diff"
    /\ lhsOf(res).type # rhsOf(res).type
    /\ res.out.branch # res.after.out.branch
    /\ res.out.dval = 3

\* C10: (a + n) - a == n for every offset n, negative, zero or positive,
\* with a + n within bounds.
C10_PlusThenDifference ==
    (res.op = "diff" /\ res.after.op = "+") =>
        /\ res.out.ok
        /\ res.out.dval = res.after.n

C10_Witness ==
    /\ res.op = "diff"
    /\ res.after.op = "+"
    /\ res.after.n = -2
    /\ res.out.dval = -2

\* C11: over one sequence a < b holds iff b - a > 0: the ordering operator
\* and the difference operator agree on the direction for every pair of
\* positions, whichever of the two was applied.
C11_LessIffReverseDifferencePositive ==
    /\ (res.op = "<" /\ SameContainer(res)) =>
          /\ RandomAccess_Difference(rhsOf(res), lhsOf(res)) # {}
          /\ \A o \in RandomAccess_Difference(rhsOf(res), lhsOf(res)) :
                o.ok /\ (res.out.bval <=> (o.dval > 0))
    /\ (res.op = "diff" /\ SameContainer(res)) =>
          /\ RandomAccess_Lt(rhsOf(res), lhsOf(res)) # {}
          /\ \A o \in RandomAccess_Lt(rhsOf(res), lhsOf(res)) :
                o.ok /\ (o.bval <=> (res.out.dval > 0))

C11_Witness ==
    /\ res.op = "<"
    /\ SameContainer(res)
    /\ lhsOf(res).type # rhsOf(res).type
    /\ lhsOf(res).position_ = 1
    /\ rhsOf(res).position_ = 4
    /\ res.out.bval
    /\ \E o \in RandomAccess_Difference(rhsOf(res), lhsOf(res)) : o.dval = 3

\* C12: a[n] is the reference elementAt(n) returns and nothing else is
\* called; a keeps its position; for an offset within the container a[n] is
\* the element *(a + n) denotes.
C12_SubscriptIsElementAt ==
    res.op = "[]" =>
        /\ res.out.calls = <<Call("elementAt", "self", "-", res.n)>>
        /\ res.out.self = res.pre
        /\ lhsOf(res) = res.pre
        /\ (res.pre.position_ + res.n) \in 0 .. (Size - 1) =>
              /\ res.out.ok
              /\ \A p \in RandomAccess_Plus(res.pre, res.n) :
                    \A s \in RandomAccess_Star(p.ret) :
                       /\ s.ok
                       /\ res.out.ref = s.ref
                       /\ AddressOf(res.out.ref) = AddressOf(s.ref)

C12_Witness ==
    /\ res.op = "[]"
    /\ res.pre.position_ = 3
    /\ res.n = -2
    /\ res.out.ref.value = 20
    /\ it[res.x].position_ = 3

\* C13: a += n calls advance(n), a -= n calls advance(-n), a + n returns a
\* copy advanced by n and a - n a copy advanced by -n; a - n is the position
\* of a + (-n); a += n followed by a -= n (and the reverse) returns a to its
\* original position.
C13_OffsetOperatorsDelegateToAdvance ==
    /\ res.op = "+=" =>
          /\ res.out.calls = <<Call("advance", "self", "-", res.n)>>
          /\ lhsOf(res) = advance(res.pre, res.n)
          /\ lhsOf(res).position_ = res.pre.position_ + res.n
    /\ res.op = "-=" =>
          /\ res.out.calls = <<Call("advance", "self", "-", -res.n)>>
          /\ lhsOf(res) = advance(res.pre, -res.n)
          /\ lhsOf(res).position_ = res.pre.position_ - res.n
    /\ res.op = "+" =>
          /\ res.out.calls = <<Call("advance", "tmp", "-", res.n)>>
          /\ res.out.ret = advance(res.pre, res.n)
          /\ res.out.ret.position_ = res.pre.position_ + res.n
          /\ res.y \in Names => SamePosition(rhsOf(res), advance(res.pre, res.n))
    /\ res.op = "-" =>
          /\ res.out.calls = <<Call("advance", "tmp", "-", -res.n)>>
          /\ res.out.ret = advance(res.pre, -res.n)
          /\ res.out.ret.position_ = res.pre.position_ - res.n
          /\ \A o \in RandomAccess_Plus(res.pre, -res.n) : o.ret = res.out.ret
          /\ res.y \in Names => SamePosition(rhsOf(res), advance(res.pre, -res.n))
    /\ (res.op = "-=" /\ res.after.op = "+=") => equals(lhsOf(res), res.after.pre)
    /\ (res.op = "+=" /\ res.after.op = "-=") => equals(lhsOf(res), res.after.pre)

C13_Witness ==
    /\ res.op = "-="
    /\ res.after.op = "+="
    /\ res.n = 2
    /\ res.after.pre.position_ = 1
    /\ res.pre.position_ = 3
    /\ it[res.x].position_ = 1

\* the iterators of the concrete scenario: begin and end of container 1
ScenarioBegin == TestIterator("Mut", 1, 0)
ScenarioEnd == TestIterator("Mut", 1, Size)
InScenario(i, p) == i.container_ = 1 /\ i.position_ = p

\* C14: over the container [10,20,30,40,50] an iterator at position 0
\* dereferences to 10 and after two increments to 30 (on every tier);
\* end - begin = 5; begin + 3 dereferences to 40; (begin+3) < (begin+4);
\* (begin+4) - (begin+1) = 3.  Stated of the scenario evaluated from begin
\* and end, and of every application of the operators at those positions.
C14_ConcreteScenario ==
    /\ \A t \in Tiers :
          /\ Star(t, ScenarioBegin) # {}
          /\ \A s \in Star(t, ScenarioBegin) : s.ok /\ s.ref.value = 10
          /\ \A i1 \in PreInc(t, ScenarioBegin) : \A i2 \in PreInc(t, i1.self) :
                /\ Star(t, i2.self) # {}
                /\ \A s \in Star(t, i2.self) : s.ok /\ s.ref.value = 30
    /\ RandomAccess_Difference(ScenarioEnd, ScenarioBegin) # {}
    /\ \A d \in RandomAccess_Difference(ScenarioEnd, ScenarioBegin) : d.ok /\ d.dval = 5
    /\ \A p3 \in RandomAccess_Plus(ScenarioBegin, 3) :
          /\ \A s \in RandomAccess_Star(p3.ret) : s.ok /\ s.ref.value = 40
          /\ \A p4 \in RandomAccess_Plus(ScenarioBegin, 4) :
                /\ RandomAccess_Lt(p3.ret, p4.ret) # {}
                /\ \A l \in RandomAccess_Lt(p3.ret, p4.ret) : l.ok /\ l.bval
    /\ \A p4 \in RandomAccess_Plus(ScenarioBegin, 4) :
          \A p1 \in RandomAccess_Plus(ScenarioBegin, 1) :
             /\ RandomAccess_Difference(p4.ret, p1.ret) # {}
             /\ \A d \in RandomAccess_Difference(p4.ret, p1.ret) : d.ok /\ d.dval = 3
    /\ res.op = "*" =>
          /\ InScenario(res.pre, 0) => res.out.ref.value = 10
          /\ InScenario(res.pre, 2) => res.out.ref.value = 30
          /\ InScenario(res.pre, 3) => res.out.ref.value = 40
    /\ (res.op = "diff" /\ InScenario(lhsOf(res), Size) /\ InScenario(rhsOf(res), 0)) =>
          res.out.dval = 5
    /\ (res.op = "diff" /\ InScenario(lhsOf(res), 4) /\ InScenario(rhsOf(res), 1)) =>
          res.out.dval = 3
    /\ (res.op = "<" /\ InScenario(lhsOf(res), 3) /\ InScenario(rhsOf(res), 4)) =>
          res.out.bval

\* in the Forward tier position 2 is reached by increments only
C14_Witness ==
    /\ tier = "Forward"
    /\ it["a"].type = it["b"].type
    /\ res.op = "*"
    /\ InScenario(res.pre, 2)
    /\ res.out.ref.value = 30

\* the operators declared by the Forward and by the Bidirectional tier
ForwardLevelOps == {"*", "->", "++it", "it++", "==", "!="}
BidirectionalLevelOps == ForwardLevelOps \cup {"--it", "it--"}
UnaryOps == {"*", "->", "++it", "it++", "--it", "it--"}
\* the outcomes the operator op as declared by tier t has for operands l, r
OutcomesOfTier(t, op, l, r) ==
    CASE op = "*" -> Star(t, l)
      [] op = "->" -> Arrow(t, l)
      [] op = "++it" -> PreInc(t, l)
      [] op = "it++" -> PostInc(t, l)
      [] op = "--it" -> PreDec(t, l)
      [] op = "it--" -> PostDec(t, l)
      [] op = "==" -> Eq(t, l, r)
      [] op = "!=" -> Ne(t, l, r)

\* C15: in every state any sequence of operator applications reaches, each
\* Forward-level operator has the same outcomes (result, new position,
\* primitive called) on the RandomAccess, the Bidirectional and the Forward
\* tier, and each Bidirectional-level operator the same on the RandomAccess
\* and the Bidirectional tier; the step actually taken is one of them.
C15_CategoryContainment ==
    /\ \A x \in Names, y \in Names, op \in BidirectionalLevelOps :
          (op \in UnaryOps => x = y) =>
             LET bi == OutcomesOfTier("Bidirectional", op, it[x], it[y])
             IN  /\ OutcomesOfTier("RandomAccess", op, it[x], it[y]) = bi
                 /\ op \in ForwardLevelOps =>
                       bi = OutcomesOfTier("Forward", op, it[x], it[y])
    /\ res.op \in ForwardLevelOps =>
          res.out \in OutcomesOfTier("Forward", res.op, res.pre,
                                     IF res.y \in Names THEN rhsOf(res) ELSE NoIter)
    /\ res.op \in BidirectionalLevelOps =>
          res.out \in OutcomesOfTier("Bidirectional", res.op, res.pre,
                                     IF res.y \in Names THEN rhsOf(res) ELSE NoIter)

C15_Witness ==
    /\ tier = "RandomAccess"
    /\ res.op = "it--"
    /\ res.pre.position_ = 2
    /\ res.out \in Bidirectional_PostDec(res.pre)
    /\ it[res.x].position_ = 1

\* operators that only read their operands, that move their operand, and
\* that return a moved copy
ReadOnlyOps == {"*", "->", "[]"} \cup BinaryOps
MovingOps == {"++it", "--it", "+=", "-="}
CopyingOps == {"+", "-"}
ReadPrimitiveOf(op) ==
    CASE op \in {"*", "->"} -> "dereference"
      [] op = "[]" -> "elementAt"
      [] op \in BinaryOps -> PrimitiveOf(op)
MovePrimitiveOf(op) ==
    CASE op = "++it" -> "increment"
      [] op = "--it" -> "decrement"
      [] op \in {"+=", "-="} -> "advance"

\* C16: a step applying *, ->, [], a comparison or iterator - iterator
\* changes no iterator and calls exactly one primitive (dereference,
\* elementAt, equals or distanceTo) once; ++it, --it, +=, -= call increment,
\* decrement or advance once, on the target, and change no other iterator;
\* a + n and a - n call advance once, on the copy, and leave a unchanged.
C16_FacadeAddsNoSideEffects ==
    [][/\ res'.op \in ReadOnlyOps =>
             /\ it' = it
             /\ res'.out.self \in {NoIter, it[res'.x]}
             /\ res'.out.ret = NoIter
             /\ Len(res'.out.calls) = 1
             /\ res'.out.calls[1].prim = ReadPrimitiveOf(res'.op)
       /\ res'.op \in MovingOps =>
             /\ Len(res'.out.calls) = 1
             /\ res'.out.calls[1].prim = MovePrimitiveOf(res'.op)
             /\ res'.out.calls[1].on = "self"
             /\ it'[res'.x] = res'.out.self
             /\ \A nm \in Names \ {res'.x} : it'[nm] = it[nm]
       /\ res'.op \in CopyingOps =>
             /\ Len(res'.out.calls) = 1
             /\ res'.out.calls[1].prim = "advance"
             /\ res'.out.calls[1].on = "tmp"
             /\ res'.out.self = it[res'.x]
             /\ \A nm \in Names \ {res'.y} : it'[nm] = it[nm]
      ]_vars

C16_Witness ==
    /\ res.op = "-"
    /\ res.x = "a"
    /\ res.y = "b"
    /\ res.n = 2
    /\ res.pre.position_ = 3
    /\ it["a"] = res.pre
    /\ it["b"].position_ = 1

ComparisonOps == {"==", "!=", "<", "<=", ">", ">="}
Count(b) == IF b THEN 1 ELSE 0
\* the six comparisons of l with r, and r < l, agree with one another
Consistent(l, r) ==
    /\ \A op \in ComparisonOps : Outcomes(op, l, r) # {}
    /\ \A eq \in Outcomes("==", l, r), ne \in Outcomes("!=", l, r),
          lt \in Outcomes("<", l, r), le \in Outcomes("<=", l, r),
          gt \in Outcomes(">", l, r), ge \in Outcomes(">=", l, r),
          tl \in Outcomes("<", r, l) :
          /\ eq.ok /\ ne.ok /\ lt.ok /\ le.ok /\ gt.ok /\ ge.ok /\ tl.ok
          /\ ne.bval <=> ~eq.bval
          /\ le.bval <=> ~gt.bval
          /\ ge.bval <=> ~lt.bval
          /\ gt.bval <=> tl.bval
          /\ (equals(l, r) <=> (distanceTo(l, r).d = 0)) =>
                Count(lt.bval) + Count(eq.bval) + Count(gt.bval) = 1

\* C17: for every pair of RandomAccess iterators of interoperable types
\* over one sequence, in either operand order (hence in both dispatch
\* branches): != negates ==, <= negates >, >= negates <, lhs > rhs is
\* rhs < lhs, and exactly one of <, ==, > holds, equals being equivalent to
\* distance zero; the comparison actually applied is one of these.
C17_ComparisonsConsistent ==
    /\ tier = "RandomAccess" =>
          \A x \in Names, y \in Names :
             (it[x].container_ = it[y].container_
                 /\ IsInteroperable(it[x].type, it[y].type)) =>
                 /\ Consistent(it[x], it[y])
                 /\ equals(it[x], it[y]) <=> (distanceTo(it[x], it[y]).d = 0)
    /\ (res.op \in ComparisonOps /\ tier = "RandomAccess" /\ SameContainer(res)) =>
          res.out \in Outcomes(res.op, lhsOf(res), rhsOf(res))

C17_Witness ==
    /\ tier = "RandomAccess"
    /\ res.op = ">="
    /\ SameContainer(res)
    /\ res.out.branch = "rhs"
    /\ lhsOf(res).position_ = 2
    /\ rhsOf(res).position_ = 2
    /\ res.out.bval

OrderingOps == {"<", "<=", ">", ">=", "diff"}

\* C18: between iterators of different containers every ordering comparison
\* and iterator - iterator calls distanceTo, whose assertion fails, so the
\* call does not return; == and != never fail an assertion and report the
\* iterators unequal, also at the same position.  Over one container the
\* assertion holds.
C18_DistanceAssertsSameContainer ==
    /\ \A x \in Names, y \in Names :
          it[x].container_ # it[y].container_ =>
             /\ ~distanceTo(it[x], it[y]).ok
             /\ \A op \in OrderingOps : \A o \in Outcomes(op, it[x], it[y]) : ~o.ok
             /\ \A o \in Outcomes("==", it[x], it[y]) : o.ok /\ ~o.bval
             /\ \A o \in Outcomes("!=", it[x], it[y]) : o.ok /\ o.bval
    /\ (res.op \in OrderingOps /\ ~SameContainer(res)) =>
          /\ ~res.out.ok
          /\ aborted
          /\ res.out.calls[1].prim = "distanceTo"
    /\ (res.op \in OrderingOps /\ SameContainer(res)) => (res.out.ok /\ ~aborted)
    /\ res.op \in {"==", "!="} =>
          /\ res.out.ok
          /\ ~aborted
          /\ ~SameContainer(res) => (res.out.bval <=> (res.op = "!="))

C18_Witness ==
    /\ res.op = ">"
    /\ ~SameContainer(res)
    /\ lhsOf(res).position_ = rhsOf(res).position_
    /\ lhsOf(res).position_ = 2
    /\ ~res.out.ok
    /\ aborted

InRange(i) == i.position_ \in Positions

\* C19: position_ is an unsigned size_t, offsets and distances are signed.
\* For two in-range positions p, q of one container distanceTo returns
\* q - p computed modulo 2^Width and read as a signed value, which is the
\* true distance q - p also when q < p; advance(n) with n < 0 adds the
\* unsigned image of n modulo 2^Width and lands on position - |n| when
\* |n| <= position; advance(a.distanceTo(b)) makes a equal to b.
C19_UnsignedPositionSignedOffset ==
    /\ (res.op = "distanceTo" /\ InRange(lhsOf(res)) /\ InRange(rhsOf(res))) =>
          /\ res.out.ok
          /\ res.out.dval
                = ToSigned((rhsOf(res).position_ + (Modulus - lhsOf(res).position_)) % Modulus)
          /\ res.out.dval = rhsOf(res).position_ - lhsOf(res).position_
    /\ (res.op = "advance" /\ res.n < 0) =>
          /\ lhsOf(res).position_ = (res.pre.position_ + (Modulus + res.n)) % Modulus
          /\ (-res.n) <= res.pre.position_ =>
                lhsOf(res).position_ = res.pre.position_ - (-res.n)
    /\ (res.op = "advance(distanceTo)" /\ InRange(res.pre) /\ InRange(rhsOf(res))) =>
          /\ equals(lhsOf(res), rhsOf(res))
          /\ lhsOf(res).position_ = rhsOf(res).position_

C19_Witness ==
    /\ res.op = "advance(distanceTo)"
    /\ res.x # res.y
    /\ res.pre.position_ = 4
    /\ res.n = -3
    /\ lhsOf(res).position_ = 1
    /\ rhsOf(res).position_ = 1

\* the binomial coefficient n over k, 0 <= k <= n, in unbounded integers
RECURSIVE Choose(_, _)
Choose(n, k) == IF k = 0 \/ k = n THEN 1 ELSE Choose(n - 1, k - 1) + Choose(n - 1, k)

\* C20: binomial(n, k) returns 0 when k < 0 or k > n, makes at most one
\* recursive call, equals binomial(n, n - k), and for 0 <= k <= n returns
\* the binomial coefficient whenever the coefficient is representable in
\* the integer type.
C20_BinomialCorrectWhenRepresentable ==
    (calc.pc = "done" /\ calc.fn = "binomial") =>
        /\ (calc.k < 0 \/ calc.k > calc.n) => calc.v = 0
        /\ calc.calls <= 1
        /\ (0 <= calc.k /\ calc.k <= calc.n) =>
              /\ Returned(calc.T, binomial(calc.T, calc.n, calc.n - calc.k))
                    = Returned(calc.T, binomial(calc.T, calc.n, calc.k))
              /\ Choose(calc.n, calc.k) \in TypeRange(calc.T) =>
                    calc.v = Choose(calc.n, calc.k)

====
